---- MODULE Spec2Model ----
(***************************************************************************)
(* Model of the Hinglish translation job engine:                           *)
(*   src/src/app.py                 upload / translate / progress /        *)
(*                                  download handlers, the job registry    *)
(*                                  hinglish_jobs and translation_worker   *)
(*   src/src/hinglish_translator.py HinglishTranslator (cache, retries)    *)
(*                                  ChunkedTranslationProcessor            *)
(*                                  (checkpoints, process_pages)           *)
(* Texts are sequences of one-character strings.  A request handler and a  *)
(* worker thread take one step per access to shared state (registry,       *)
(* cache, checkpoint file, output artifact, backend).                      *)
(***************************************************************************)
EXTENDS Integers, Sequences, FiniteSets, TLC

(***************************************************************************)
(* Bounds of the model.                                                    *)
(***************************************************************************)
\* request-handler threads that can be in flight at once
MaxReq == 2
\* background worker threads that can be alive at once
MaxWorkers == 2
\* process crashes (kill + restart of the server) in one behaviour
MaxCrash == 1
\* translation workers launched in one behaviour
MaxRuns == 2
\* hex digits kept of an md5 hexdigest (32 in the program)
HashLen == 4

(***************************************************************************)
(* Program constants.                                                      *)
(***************************************************************************)
\* translate_to_hinglish(text, retry_count=3)
retry_count == 3
\* translate_chunk(text, max_chunk_size=4000)
max_chunk_size == 4000

(***************************************************************************)
(* Text helpers.                                                           *)
(***************************************************************************)
Whitespace == {" ", "\n", "\t"}

RECURSIVE LStrip(_)
LStrip(s) == IF s # <<>> /\ Head(s) \in Whitespace THEN LStrip(Tail(s)) ELSE s

RECURSIVE RStrip(_)
RStrip(s) ==
    IF s # <<>> /\ s[Len(s)] \in Whitespace THEN RStrip(SubSeq(s, 1, Len(s) - 1)) ELSE s

\* str.strip()
Strip(s) == RStrip(LStrip(s))

\* the test `text and text.strip()` of process_pages and translate_to_hinglish
NonBlank(text) == text # <<>> /\ Strip(text) # <<>>

(***************************************************************************)
(* md5(...).hexdigest().  The digest is a fixed-width string of hex        *)
(* digits computed from every character of the input; the width is         *)
(* HashLen instead of 32.  Collision freedom of md5 itself is not          *)
(* something a model can establish: what is modelled is which data reach   *)
(* the digest and the shape of the digest.                                 *)
(***************************************************************************)
HexDigits == <<"0", "1", "2", "3", "4", "5", "6", "7",
               "8", "9", "a", "b", "c", "d", "e", "f">>

Alphabet == HexDigits \o <<"_", ".", " ", "|", "t", "x", "n", "m">>

CharCode(c) == CHOOSE i \in 1..Len(Alphabet) : Alphabet[i] = c

RECURSIVE Pow(_, _)
Pow(b, n) == IF n = 0 THEN 1 ELSE b * Pow(b, n - 1)

RECURSIVE Mix(_, _)
Mix(h, s) ==
    IF s = <<>> THEN h
    ELSE Mix((h * 31 + CharCode(Head(s))) % Pow(16, HashLen), Tail(s))

RECURSIVE ToHex(_, _)
ToHex(n, width) ==
    IF width = 0 THEN <<>>
    ELSE ToHex(n \div 16, width - 1) \o <<HexDigits[(n % 16) + 1]>>

Md5Hex(s) == ToHex(Mix(7, s), HashLen)

\* the job id taken from the stored filename alone
JobIdNameOnly(filename, file_content) == Md5Hex(filename)

\* job_id = md5(f"{filename}_{content_hash}") with content_hash = md5(file_content)
JobId(filename, file_content) == Md5Hex(filename \o <<"_">> \o Md5Hex(file_content))


(***************************************************************************)
(* The documents that are uploaded.  BookParser (parser.py) is not among   *)
(* the sources: a file is a byte string whose pages are separated by "|",  *)
(* and the empty file has no page.                                         *)
(***************************************************************************)
\* three pages, the second one empty, the third one repeating the first
FileA == [name |-> <<"m", ".", "t", "x", "t">>, content |-> <<"b", "|", "|", "b">>]

\* two pages, the first one whitespace only
FileB == [name |-> <<"n", ".", "t", "x", "t">>, content |-> <<" ", "|", "b">>]

\* one page, the text of FileB's second page
FileC == [name |-> <<"x", ".", "t", "x", "t">>, content |-> <<"b">>]

\* no page at all
FileE == [name |-> <<"e", ".", "t", "x", "t">>, content |-> <<>>]

Files == {FileA, FileB, FileC, FileE}

RECURSIVE SplitPages(_, _)
SplitPages(bytes, cur) ==
    IF bytes = <<>> THEN <<cur>>
    ELSE IF Head(bytes) = "|" THEN <<cur>> \o SplitPages(Tail(bytes), <<>>)
    ELSE SplitPages(Tail(bytes), Append(cur, Head(bytes)))

\* BookParser(filepath): the ordered page texts of the stored file
ParserPages(bytes) == IF bytes = <<>> THEN <<>> ELSE SplitPages(bytes, <<>>)

\* parser.get_total_pages()
get_total_pages(pages) == Len(pages)

\* parser.extract_page(page_num), page_num counted from 0
extract_page(pages, page_num) == pages[page_num + 1]

\* the job id of each file (hinglish_upload computes it from the request)
IdOfFile == [f \in Files |-> JobId(f.name, f.content)]

Ids == {IdOfFile[f] : f \in Files}

FileOf(id) == CHOOSE f \in Files : IdOfFile[f] = id

IdA == IdOfFile[FileA]

IdB == IdOfFile[FileB]

IdC == IdOfFile[FileC]

IdE == IdOfFile[FileE]

\* job['parser'] of a job id: the pages of its file
PagesOf == [id \in Ids |-> ParserPages(FileOf(id).content)]

(***************************************************************************)
(* The translation backend (Google translate + romanization) is opaque:    *)
(* a successful call returns a text determined by its input.               *)
(***************************************************************************)
Backend(text) == <<"~">> \o text

\* the chunk texts the modelled files give rise to, with their md5
KeyOfText == [t \in UNION {{PagesOf[id][i] : i \in 1..Len(PagesOf[id])} : id \in Ids}
                |-> Md5Hex(t)]

\* _get_cache_key
cache_key(text) == IF text \in DOMAIN KeyOfText THEN KeyOfText[text] ELSE Md5Hex(text)

(***************************************************************************)
(* State.                                                                  *)
(***************************************************************************)
VARIABLES
    jobs,        \* hinglish_jobs: job_id -> job record (a dict: its domain varies)
    progress,    \* checkpoint files {job_id}_progress.json: job_id -> checkpoint
    outfile,     \* output artifacts {job_id}_hinglish.txt: job_id -> page entries
    cache,       \* HinglishTranslator.cache (in memory): cache key -> text
    cacheFile,   \* hinglish_translations.json on disk
    req,         \* request-handler threads
    wk,          \* translation_worker threads
    crashes,     \* number of process crashes so far
    flushed,     \* history: <<job_id, page>> whose output was written and flushed
    raced,       \* history: job ids for which two workers were alive at once
    okCalls,     \* history: texts -> successful backend invocations (capped at 2)
    runs,        \* number of workers launched so far
    env,         \* the deployment: files uploaded, handler and worker threads
    answer,      \* the last answer of POST /hinglish/translate
    idIn,        \* identity check: the two uploads compared
    idOut,       \* identity check: their job ids
    rt,          \* one translate_to_hinglish call past its cache lookup
    ch           \* one translate_chunk call: its input and the texts it hands on

vars == <<jobs, progress, outfile, cache, cacheFile, req, wk, crashes,
          flushed, raced, okCalls, runs, env, answer, idIn, idOut, rt, ch>>

Req == 1..MaxReq

Workers == 1..MaxWorkers

IdleReq == [op |-> "idle"]

IdleW == [pc |-> "idle"]

NoAnswer == [result |-> "none"]

NoSave == [lcp |-> -1, status |-> "none", error |-> "none"]

\* what _load_progress finds when there is no checkpoint file (it returns None)
NoCk == [lcp |-> -1, status |-> "absent", error |-> "none"]

\* a checkpoint file that json.load cannot read: a write that was cut short
CorruptCk == [lcp |-> -1, status |-> "corrupt", error |-> "none"]

Put(f, k, v) == [x \in DOMAIN f \cup {k} |-> IF x = k THEN v ELSE f[x]]

EmptyMap == [x \in {} |-> 0]

IdNone == <<>>

NoRetry == [pc |-> "idle"]

NoSplit == [done |-> FALSE]

\* no translate_to_hinglish or translate_chunk call is followed on its own
InitPure ==
    /\ rt = NoRetry
    /\ ch = NoSplit

InitJobs ==
    /\ jobs = EmptyMap
    /\ progress = EmptyMap
    /\ outfile = EmptyMap
    /\ cache = EmptyMap
    /\ cacheFile = EmptyMap
    /\ req = [r \in Req |-> IdleReq]
    /\ wk = [w \in Workers |-> IdleW]
    /\ crashes = 0
    /\ flushed = {}
    /\ raced = {}
    /\ okCalls = EmptyMap
    /\ runs = 0
    /\ answer = NoAnswer

\* one one-page document, concurrent requests and workers
EnvRequests == [files |-> {FileC}, reqs |-> MaxReq, workers |-> MaxWorkers]

\* two documents sharing a page text, concurrent workers, one request at a time
EnvJobs == [files |-> {FileB, FileC}, reqs |-> 1, workers |-> MaxWorkers]

\* one three-page document, one request and one worker at a time
EnvSingle == [files |-> {FileA}, reqs |-> 1, workers |-> 1]

\* one document without pages, one request and one worker at a time
EnvEmpty == [files |-> {FileE}, reqs |-> 1, workers |-> 1]

Init ==
    /\ InitJobs
    /\ env \in {EnvRequests, EnvJobs, EnvSingle}
    /\ idIn = IdNone
    /\ idOut = IdNone
    /\ InitPure

jobVars == <<jobs, progress, outfile, cache, cacheFile, req, wk, crashes,
             flushed, raced, okCalls, runs, env, answer>>

idVars == <<idIn, idOut>>

pureVars == <<rt, ch>>


(***************************************************************************)
(* translate_chunk: the texts it hands to translate_to_hinglish.           *)
(***************************************************************************)
RECURSIVE SplitWords(_, _)
\* str.split(): the maximal runs of non-whitespace characters
SplitWords(s, cur) ==
    IF s = <<>> THEN (IF cur = <<>> THEN <<>> ELSE <<cur>>)
    ELSE IF Head(s) \in Whitespace
         THEN (IF cur = <<>> THEN <<>> ELSE <<cur>>) \o SplitWords(Tail(s), <<>>)
         ELSE SplitWords(Tail(s), Append(cur, Head(s)))

RECURSIVE Join(_)
\* ' '.join(parts)
Join(parts) ==
    IF parts = <<>> THEN <<>>
    ELSE IF Len(parts) = 1 THEN parts[1]
    ELSE parts[1] \o <<" ">> \o Join(Tail(parts))

RECURSIVE Greedy(_, _, _, _)
\* the loop over words: current_chunk, current_size and the chunks closed so far
Greedy(words, current_chunk, current_size, max) ==
    IF words = <<>>
    THEN (IF current_chunk # <<>> THEN <<Join(current_chunk)>> ELSE <<>>)
    ELSE LET word == Head(words)
             word_size == Len(word) + 1
         IN  IF current_size + word_size > max /\ current_chunk # <<>>
             THEN <<Join(current_chunk)>> \o Greedy(Tail(words), <<word>>, word_size, max)
             ELSE Greedy(Tail(words), Append(current_chunk, word),
                         current_size + word_size, max)

\* a split into pieces of max characters, wherever they end
translate_chunk_by_size(text, max) ==
    IF Len(text) <= max THEN <<text>>
    ELSE [i \in 1..((Len(text) + max - 1) \div max) |->
             SubSeq(text, (i - 1) * max + 1,
                    IF i * max < Len(text) THEN i * max ELSE Len(text))]

\* translate_chunk: the whole text when it fits, else the chunks of the word loop
translate_chunk_texts(text, max) ==
    IF Len(text) <= max THEN <<text>> ELSE Greedy(SplitWords(text, <<>>), <<>>, 0, max)

(***************************************************************************)
(* Request handlers.                                                       *)
(***************************************************************************)
Known(id) == id \in DOMAIN jobs

\* a handler thread that can take a new request
\* the answer of a start request is delivered before any other step is taken
Quiet == answer = NoAnswer

Free(r) ==
    /\ Quiet
    /\ r <= env.reqs
    /\ req[r].op = "idle"
    /\ \A q \in Req : q < r => req[q].op # "idle"

\* progress.get('last_completed_page', -1) + 1 of a loaded checkpoint
ResumePoint(ck) == ck.lcp + 1

\* the checkpoint file of a job id as it lies on disk
StoredCk(id) == IF id \in DOMAIN progress THEN progress[id] ELSE NoCk

\* a worker is at a _save_progress of the job id: open(progress_file, 'w') and
\* json.dump are not atomic and take no lock
BeingSaved(id) ==
    \E w \in Workers : wk[w].pc \in {"save", "err_save", "save_done"} /\ wk[w].id = id

\* _load_progress: the file as stored or, read while it is being written, cut short
LoadOutcomes(id) ==
    {StoredCk(id)} \cup (IF BeingSaved(id) THEN {CorruptCk} ELSE {})

\* json.load returns
Readable(ck) == ck.status # "corrupt"

\* `if progress:`
Present(ck) == ck.status # "absent"

\* resume_from reported without the + 1
UploadResumeFromLast(ck) == IF Present(ck) THEN ck.lcp ELSE 0

\* hinglish_upload: resume_from = 0, or last_completed_page + 1 `if progress`
UploadResumeFrom(ck) == IF Present(ck) THEN ResumePoint(ck) ELSE 0

\* what hinglish_upload answers for the checkpoint it loaded; force_restart is a
\* form field of the request that the handler does not read
UploadResponse(id, ck, force_restart) ==
    IF ~Readable(ck) THEN [code |-> 500]
    ELSE [code |-> 200, job_id |-> id, total_pages |-> get_total_pages(PagesOf[id]),
          resume_from |-> UploadResumeFrom(ck)]

\* hinglish_upload up to _load_progress: job id, parser, resume_from; an
\* unreadable checkpoint ends the request in the handler's except (500)
UploadBegin(r, f, force_restart) ==
    /\ Free(r)
    /\ f \in env.files
    /\ \E ck \in LoadOutcomes(IdOfFile[f]) :
          LET id == IdOfFile[f]
              response == UploadResponse(id, ck, force_restart)
          IN  IF response.code = 200
              THEN req' = [req EXCEPT ![r] = [op |-> "upload", id |-> id,
                                              resume_from |-> response.resume_from,
                                              seen |-> ck]]
              ELSE UNCHANGED req
    /\ UNCHANGED <<jobs, progress, outfile, cache, cacheFile, wk, crashes,
                   flushed, raced, okCalls, runs, env, answer, idVars, pureVars>>

\* what a pending start request has seen: an upload resets both marks
SeenUpload(q, id) ==
    IF req[q].op = "start" /\ req[q].id = id
    THEN [req[q] EXCEPT !.peer = FALSE, !.peerLive = FALSE]
    ELSE req[q]

\* hinglish_upload, `with hinglish_jobs_lock`: store the job unconditionally
UploadStore(r) ==
    /\ Quiet
    /\ req[r].op = "upload"
    /\ LET id == req[r].id
       IN  /\ jobs' = Put(jobs, id,
                          [status |-> "uploaded",
                           completed |-> req[r].resume_from,
                           total |-> get_total_pages(PagesOf[id]),
                           output_file |-> "none",
                           error |-> "none"])
           /\ req' = [q \in Req |-> IF q = r THEN IdleReq ELSE SeenUpload(q, id)]
    /\ UNCHANGED <<progress, outfile, cache, cacheFile, wk, crashes,
                   flushed, raced, okCalls, runs, env, answer, idVars, pureVars>>

\* a POST /hinglish/translate arrives and waits for hinglish_jobs_lock
StartCall(r, id) ==
    /\ Free(r)
    /\ \E f \in env.files : id = IdOfFile[f]
    /\ req' = [req EXCEPT ![r] =
                 [op |-> "start", id |-> id, result |-> "none",
                  notProc |-> Known(id) /\ jobs[id].status # "processing",
                  peer |-> FALSE, peerLive |-> FALSE]]
    /\ UNCHANGED <<jobs, progress, outfile, cache, cacheFile, wk, crashes,
                   flushed, raced, okCalls, runs, env, answer, idVars, pureVars>>

\* a start request that never finds the job processing
AlreadyProcessingNever(job) == FALSE

\* job['status'] == 'processing'
AlreadyProcessing(job) == job.status = "processing"

ActiveRun(w) == wk[w].pc \notin {"idle", "finish"}

FreeWorker(w) ==
    /\ w <= env.workers
    /\ wk[w].pc = "idle"
    /\ \A v \in Workers : v < w => wk[v].pc # "idle"

NewWorker(id) ==
    [pc |-> "load", id |-> id, hint |-> 0, total |-> 0, start_page |-> 0, page_num |-> 0,
     chunks |-> <<>>, parts |-> <<>>,
     result |-> "none", error |-> "none",
     hadProgress |-> FALSE, loadedLcp |-> -1, called |-> {}, wrote |-> {},
     saved |-> NoSave, cachedAtLookup |-> FALSE]

\* what a pending start request has seen: another request was started
SeenStart(q, id) ==
    IF req[q].op = "start" /\ req[q].id = id
    THEN [req[q] EXCEPT !.peer = TRUE, !.peerLive = TRUE]
    ELSE req[q]

StartAnswer(r, result) == [req[r] EXCEPT !.result = result]

\* hinglish_translate, `with hinglish_jobs_lock`: 404, 400 or status := processing,
\* then thread.start() of translation_worker
StartCheck(r) ==
    /\ Quiet
    /\ req[r].op = "start"
    /\ LET id == req[r].id
       IN  \/ /\ ~Known(id)
              /\ req' = [req EXCEPT ![r] = IdleReq]
              /\ answer' = StartAnswer(r, "not_found")
              /\ UNCHANGED <<jobs, wk, raced, runs>>
           \/ /\ Known(id)
              /\ AlreadyProcessing(jobs[id])
              /\ req' = [req EXCEPT ![r] = IdleReq]
              /\ answer' = StartAnswer(r, "rejected")
              /\ UNCHANGED <<jobs, wk, raced, runs>>
           \/ /\ Known(id)
              /\ ~AlreadyProcessing(jobs[id])
              /\ runs < MaxRuns
              /\ runs' = runs + 1
              /\ \E w \in Workers :
                    /\ FreeWorker(w)
                    /\ wk' = [wk EXCEPT ![w] = NewWorker(id)]
              /\ jobs' = [jobs EXCEPT ![id].status = "processing"]
              /\ req' = [q \in Req |-> IF q = r THEN IdleReq ELSE SeenStart(q, id)]
              /\ answer' = StartAnswer(r, "started")
              /\ raced' = IF \E v \in Workers : ActiveRun(v) /\ wk[v].id = id
                          THEN raced \cup {id} ELSE raced
    /\ UNCHANGED <<progress, outfile, cache, cacheFile, crashes,
                   flushed, okCalls, env, idVars, pureVars>>

\* a progress answer that invents an entry for an unknown job id
PollResponseDefault(id) ==
    IF ~Known(id) THEN [code |-> 200, completed |-> 0, total |-> 0,
                        status |-> "uploaded", error |-> "none"]
    ELSE [code |-> 200, completed |-> jobs[id].completed, total |-> jobs[id].total,
          status |-> jobs[id].status, error |-> jobs[id].error]

\* hinglish_progress: the answer to GET /hinglish/progress/<job_id>
PollResponse(id) ==
    IF ~Known(id) THEN [code |-> 404]
    ELSE [code |-> 200, completed |-> jobs[id].completed, total |-> jobs[id].total,
          status |-> jobs[id].status, error |-> jobs[id].error]

Poll(id) ==
    /\ Quiet
    /\ PollResponse(id).code \in {200, 404}
    /\ UNCHANGED vars

\* a download that does not look at the status
DownloadAnswerAnyStatus(known, job, exists, body) ==
    IF ~known THEN [code |-> 404]
    ELSE IF job.output_file = "none" THEN [code |-> 404]
    ELSE IF ~exists THEN [code |-> 404]
    ELSE [code |-> 200, body |-> body]

\* hinglish_download: the checks under hinglish_jobs_lock, then send_file
DownloadAnswer(known, job, exists, body) ==
    IF ~known THEN [code |-> 404]
    ELSE IF job.status # "completed" THEN [code |-> 400]
    ELSE IF job.output_file = "none" THEN [code |-> 404]
    ELSE IF ~exists THEN [code |-> 404]
    ELSE [code |-> 200, body |-> body]

\* hinglish_download: the answer to GET /hinglish/download/<job_id>
DownloadResponse(id) ==
    DownloadAnswer(Known(id),
                   IF Known(id) THEN jobs[id] ELSE [status |-> "none", output_file |-> "none"],
                   id \in DOMAIN outfile,
                   IF id \in DOMAIN outfile THEN outfile[id] ELSE <<>>)

Download(id) ==
    /\ Quiet
    /\ DownloadResponse(id).code \in {200, 400, 404}
    /\ UNCHANGED vars


(***************************************************************************)
(* translation_worker: process_pages step by step, then the registry       *)
(* update.  The parser of a worker is the one stored with the job, that    *)
(* is the file of the job id.  A step is one access to shared state        *)
(* together with the thread-local work that follows it.                    *)
(***************************************************************************)
Pages(w) == PagesOf[wk[w].id]

Step(w, rec) == wk' = [wk EXCEPT ![w] = rec]

\* no early return at all
ShortCircuitNever(start_page, total_pages) == FALSE

\* the early return taken only past the last page
ShortCircuitStrict(start_page, total_pages) == start_page > total_pages

\* `if start_page >= total_pages` after a checkpoint was loaded
ShortCircuit(start_page, total_pages) == start_page >= total_pages

\* a start page that follows the checkpoint only when the caller passes 0
StartPageOfCaller(ck, start_page) ==
    IF Present(ck) /\ start_page = 0 THEN ResumePoint(ck) ELSE start_page

\* `if progress: start_page = progress.get('last_completed_page', -1) + 1`;
\* otherwise the parameter keeps the caller's value
StartPage(ck, start_page) == IF Present(ck) THEN ResumePoint(ck) ELSE start_page

\* total_pages, _load_progress, the resume point and the early return; json.load
\* is outside every try of process_pages, so its exception leaves the function
W_Load(w) ==
    /\ Quiet
    /\ wk[w].pc = "load"
    /\ \E ck \in LoadOutcomes(wk[w].id) :
          LET total_pages == get_total_pages(Pages(w))
              has == Present(ck)
              start_page == StartPage(ck, wk[w].hint)
              seen == [wk[w] EXCEPT !.total = total_pages, !.start_page = start_page,
                                    !.hadProgress = has,
                                    !.loadedLcp = IF has THEN ck.lcp ELSE -1]
          IN  IF ~Readable(ck)
              THEN Step(w, [wk[w] EXCEPT !.pc = "finish", !.result = "raised",
                                         !.error = "checkpoint",
                                         !.total = total_pages])
              ELSE IF has /\ ShortCircuit(start_page, total_pages)
                   THEN Step(w, [seen EXCEPT !.pc = "finish", !.result = "completed"])
                   ELSE Step(w, [seen EXCEPT !.pc = "open"])
    /\ UNCHANGED <<jobs, progress, outfile, cache, cacheFile, req, crashes,
                   flushed, raced, okCalls, runs, env, answer, idVars, pureVars>>

\* mode = 'a' if start_page > 0 else 'w'
OpenMode(start_page) == IF start_page > 0 THEN "a" ELSE "w"

\* open(output_file, mode): 'w' truncates, 'a' creates the file when missing
W_Open(w) ==
    /\ Quiet
    /\ wk[w].pc = "open"
    /\ LET id == wk[w].id
       IN  /\ outfile' = IF OpenMode(wk[w].start_page) = "w" \/ id \notin DOMAIN outfile
                         THEN Put(outfile, id, <<>>)
                         ELSE outfile
           /\ IF wk[w].start_page < wk[w].total
              THEN Step(w, [wk[w] EXCEPT !.pc = "page", !.page_num = wk[w].start_page])
              ELSE Step(w, [wk[w] EXCEPT !.pc = "save_done"])
    /\ UNCHANGED <<jobs, progress, cache, cacheFile, req, crashes,
                   flushed, raced, okCalls, runs, env, answer, idVars, pureVars>>

\* a callback that leaves the registry alone
progress_callback_off(id, page_num) == jobs

\* progress_callback(page_num, total, status): completed := page_num, under the lock
progress_callback(id, page_num) ==
    IF Known(id) THEN [jobs EXCEPT ![id].completed = page_num] ELSE jobs

\* `if text`: a whitespace-only page would be handed to translate_chunk
NeedsTranslationNonEmpty(text) == text # <<>>

\* `if text and text.strip()`: the page is handed to translate_chunk
NeedsTranslation(text) == NonBlank(text)

\* callback(page_num, total_pages, 'processing'), then
\* text = parser.extract_page(page_num), which may raise
W_Page(w) ==
    /\ Quiet
    /\ wk[w].pc = "page"
    /\ jobs' = progress_callback(wk[w].id, wk[w].page_num)
    /\ \/ LET text == extract_page(Pages(w), wk[w].page_num)
          IN  IF NeedsTranslation(text)
              THEN Step(w, [wk[w] EXCEPT !.pc = "lookup",
                                         !.chunks = translate_chunk_texts(text, max_chunk_size),
                                         !.parts = <<>>,
                                         !.called = @ \cup {wk[w].page_num}])
              ELSE Step(w, [wk[w] EXCEPT !.pc = "save"])
       \/ Step(w, [wk[w] EXCEPT !.pc = "err_save", !.error = "extract"])
    /\ UNCHANGED <<progress, outfile, cache, cacheFile, req, crashes,
                   flushed, raced, okCalls, runs, env, answer, idVars, pureVars>>

\* the chunk translate_to_hinglish is working on
Chunk(w) == wk[w].chunks[Len(wk[w].parts) + 1]

\* a translator call whose result is dropped and whose chunk is looked up again
ReturnedNowhere(w, text) == [wk[w] EXCEPT !.pc = "lookup", !.cachedAtLookup = FALSE]

\* translate_to_hinglish returned `text`: next chunk, or the page is translated
Returned(w, text) ==
    LET parts == Append(wk[w].parts, text)
    IN  IF Len(parts) < Len(wk[w].chunks)
        THEN [wk[w] EXCEPT !.pc = "lookup", !.parts = parts, !.cachedAtLookup = FALSE]
        ELSE [wk[w] EXCEPT !.pc = "flush", !.parts = parts, !.cachedAtLookup = FALSE]

\* a lookup that never finds the key
CacheHitNever(text) == FALSE

\* `if cache_key in self.cache`, under cache_lock
CacheHit(text) == cache_key(text) \in DOMAIN cache

\* translate_to_hinglish: blank text, then the cache lookup
W_Lookup(w) ==
    /\ Quiet
    /\ wk[w].pc = "lookup"
    /\ LET text == Chunk(w)
           seen == [wk[w] EXCEPT !.cachedAtLookup = cache_key(text) \in DOMAIN cache]
       IN  IF ~NonBlank(text) THEN Step(w, Returned(w, <<>>))
           ELSE IF CacheHit(text)
                THEN Step(w, Returned(w, cache[cache_key(text)]))
                ELSE Step(w, [seen EXCEPT !.pc = "attempt"])
    /\ UNCHANGED <<jobs, progress, outfile, cache, cacheFile, req, crashes,
                   flushed, raced, okCalls, runs, env, answer, idVars, pureVars>>

RECURSIVE RetryLoop(_, _)
\* `for attempt in range(retry_count)` from `attempt` on, the backend failing its
\* first `fails` calls: whether a result is returned, and the attempts made
RetryLoop(attempt, fails) ==
    IF attempt >= retry_count THEN [ok |-> FALSE, attempts |-> attempt]
    ELSE IF attempt >= fails THEN [ok |-> TRUE, attempts |-> attempt + 1]
    ELSE IF attempt < retry_count - 1 THEN RetryLoop(attempt + 1, fails)
    ELSE [ok |-> FALSE, attempts |-> attempt + 1]

Count(text) == IF text \in DOMAIN okCalls THEN okCalls[text] ELSE 0

\* the retry loop of translate_to_hinglish: the backend calls and, on success,
\* self.cache[cache_key] = hinglish_text under cache_lock; on exhaustion, raise
W_Translate(w) ==
    /\ Quiet
    /\ wk[w].pc = "attempt"
    /\ \E fails \in 0..retry_count :
          LET out == RetryLoop(0, fails)
          IN  IF out.ok
              THEN /\ cache' = Put(cache, cache_key(Chunk(w)), Backend(Chunk(w)))
                   /\ okCalls' = Put(okCalls, Chunk(w),
                                     IF Count(Chunk(w)) < 2 THEN Count(Chunk(w)) + 1 ELSE 2)
                   /\ Step(w, [wk[w] EXCEPT !.pc = "savecache"])
              ELSE /\ UNCHANGED <<cache, okCalls>>
                   /\ Step(w, [wk[w] EXCEPT !.pc = "err_save", !.error = "transform"])
    /\ UNCHANGED <<jobs, progress, outfile, cacheFile, req, crashes,
                   flushed, raced, runs, env, answer, idVars, pureVars>>

\* _save_cache: the whole in-memory cache is dumped to the cache file
W_SaveCache(w) ==
    /\ Quiet
    /\ wk[w].pc = "savecache"
    /\ cacheFile' = cache
    /\ Step(w, Returned(w, Backend(Chunk(w))))
    /\ UNCHANGED <<jobs, progress, outfile, cache, req, crashes,
                   flushed, raced, okCalls, runs, env, answer, idVars, pureVars>>

\* what the three f.write calls put into the file for one page
PageEntry(page_num, parts) == [marker |-> page_num + 1, text |-> Join(parts)]

\* f.write(...) x 3 and f.flush(): the page reaches the artifact
W_Flush(w) ==
    /\ Quiet
    /\ wk[w].pc = "flush"
    /\ LET id == wk[w].id
       IN  /\ outfile' = Put(outfile, id,
                             Append(IF id \in DOMAIN outfile THEN outfile[id] ELSE <<>>,
                                    PageEntry(wk[w].page_num, wk[w].parts)))
           /\ flushed' = flushed \cup {<<id, wk[w].page_num>>}
    /\ Step(w, [wk[w] EXCEPT !.pc = "save", !.wrote = @ \cup {wk[w].page_num}])
    /\ UNCHANGED <<jobs, progress, cache, cacheFile, req, crashes,
                   raced, okCalls, runs, env, answer, idVars, pureVars>>

Checkpoint(lcp, status, error) == [lcp |-> lcp, status |-> status, error |-> error]

\* a checkpoint that runs one page ahead of the page just handled
PageCheckpointAhead(page_num) == Checkpoint(page_num + 1, "in_progress", "none")

\* the checkpoint written after a page: last_completed_page = page_num
PageCheckpoint(page_num) == Checkpoint(page_num, "in_progress", "none")

\* _save_progress after the page (empty pages included)
W_Save(w) ==
    /\ Quiet
    /\ wk[w].pc = "save"
    /\ progress' = Put(progress, wk[w].id, PageCheckpoint(wk[w].page_num))
    /\ Step(w, [wk[w] EXCEPT !.pc = "cb_done", !.saved = PageCheckpoint(wk[w].page_num)])
    /\ UNCHANGED <<jobs, outfile, cache, cacheFile, req, crashes,
                   flushed, raced, okCalls, runs, env, answer, idVars, pureVars>>

\* a loop that leaves out the page after page 0
NextPageSkip(page_num) == IF page_num = 0 THEN 2 ELSE page_num + 1

\* `for page_num in range(start_page, total_pages)`: the value after page_num
NextPage(page_num) == page_num + 1

\* callback(page_num + 1, total_pages, 'completed'), then the next page
W_CbDone(w) ==
    /\ Quiet
    /\ wk[w].pc = "cb_done"
    /\ jobs' = progress_callback(wk[w].id, wk[w].page_num + 1)
    /\ IF NextPage(wk[w].page_num) < wk[w].total
       THEN Step(w, [wk[w] EXCEPT !.pc = "page", !.page_num = NextPage(@)])
       ELSE Step(w, [wk[w] EXCEPT !.pc = "save_done"])
    /\ UNCHANGED <<progress, outfile, cache, cacheFile, req, crashes,
                   flushed, raced, okCalls, runs, env, answer, idVars, pureVars>>

\* an error checkpoint that counts the failed page as completed
ErrorCheckpointCounts(page_num, error) == Checkpoint(page_num, "error", error)

\* the checkpoint written by the page's except block
ErrorCheckpoint(page_num, error) == Checkpoint(page_num - 1, "error", error)

\* except Exception: _save_progress(status error), raise, return the error result
W_ErrSave(w) ==
    /\ Quiet
    /\ wk[w].pc = "err_save"
    /\ progress' = Put(progress, wk[w].id, ErrorCheckpoint(wk[w].page_num, wk[w].error))
    /\ Step(w, [wk[w] EXCEPT !.pc = "finish", !.result = "error",
                             !.saved = ErrorCheckpoint(wk[w].page_num, wk[w].error)])
    /\ UNCHANGED <<jobs, outfile, cache, cacheFile, req, crashes,
                   flushed, raced, okCalls, runs, env, answer, idVars, pureVars>>

\* a last checkpoint that still says in_progress
FinalCheckpointInProgress(total_pages) == Checkpoint(total_pages - 1, "in_progress", "none")

\* the checkpoint written after the loop
FinalCheckpoint(total_pages) == Checkpoint(total_pages - 1, "completed", "none")

\* after the loop: the file is closed, the completed checkpoint is saved
W_SaveDone(w) ==
    /\ Quiet
    /\ wk[w].pc = "save_done"
    /\ progress' = Put(progress, wk[w].id, FinalCheckpoint(wk[w].total))
    /\ Step(w, [wk[w] EXCEPT !.pc = "finish", !.result = "completed",
                             !.saved = FinalCheckpoint(wk[w].total)])
    /\ UNCHANGED <<jobs, outfile, cache, cacheFile, req, crashes,
                   flushed, raced, okCalls, runs, env, answer, idVars, pureVars>>

\* what a pending start request has seen: the worker's terminal update
SeenFinish(q, id) ==
    IF req[q].op = "start" /\ req[q].id = id
    THEN [req[q] EXCEPT !.peerLive = FALSE]
    ELSE req[q]

\* a terminal update that stores the status alone
TerminalUpdateStatusOnly(job, result, error) ==
    [job EXCEPT !.status = IF result = "raised" THEN "error" ELSE result]

\* the update translation_worker makes under the registry lock when
\* process_pages has returned a result or has raised
TerminalUpdate(job, result, error) ==
    IF result = "raised"
    THEN [job EXCEPT !.status = "error", !.error = error]
    ELSE [job EXCEPT !.status = result,
                     !.output_file = "set",
                     !.error = IF result = "error" THEN error ELSE @]

\* translation_worker, `with hinglish_jobs_lock`: status, output_file, error of
\* the result, or status error and str(e) when process_pages raised
W_Finish(w) ==
    /\ Quiet
    /\ wk[w].pc = "finish"
    /\ LET id == wk[w].id
       IN  /\ jobs' = IF ~Known(id) THEN jobs
                      ELSE [jobs EXCEPT
                              ![id] = TerminalUpdate(@, wk[w].result, wk[w].error)]
           /\ req' = [q \in Req |-> SeenFinish(q, id)]
    /\ Step(w, IdleW)
    /\ UNCHANGED <<progress, outfile, cache, cacheFile, crashes,
                   flushed, raced, okCalls, runs, env, answer, idVars, pureVars>>

\* a worker is at a _save_cache: open(cache_file, 'w') and json.dump rewrite
\* the cache file in place
CacheBeingSaved == \E w \in Workers : wk[w].pc = "savecache"

\* _load_cache at a restart: the stored cache, or {} for a file that was cut
\* short while it was being written (the exception is swallowed)
CacheLoadOutcomes ==
    {cacheFile} \cup (IF CacheBeingSaved THEN {EmptyMap} ELSE {})

\* the server process dies and is started again: threads and the registry are
\* gone, the files stay, the translator reloads its cache from the cache file;
\* a checkpoint or a cache file that was being written may be left cut short
\* (a cache file that cannot be read counts as empty until the next _save_cache
\* overwrites it)
Crash ==
    /\ Quiet
    /\ crashes < MaxCrash
    /\ crashes' = crashes + 1
    /\ jobs' = EmptyMap
    /\ req' = [r \in Req |-> IdleReq]
    /\ wk' = [w \in Workers |-> IdleW]
    /\ \E loaded \in CacheLoadOutcomes :
          /\ cacheFile' = loaded
          /\ cache' = loaded
    /\ \E torn \in SUBSET {id \in Ids : BeingSaved(id)} :
          progress' = [id \in DOMAIN progress \cup torn |->
                          IF id \in torn THEN CorruptCk ELSE progress[id]]
    /\ UNCHANGED <<outfile, flushed, raced, okCalls, runs, env,
                   answer, idVars, pureVars>>

\* the answer of hinglish_translate reaches the client
Reply ==
    /\ ~Quiet
    /\ answer' = NoAnswer
    /\ UNCHANGED <<jobs, progress, outfile, cache, cacheFile, req, wk, crashes,
                   flushed, raced, okCalls, runs, env, idVars, pureVars>>

Next ==
    \/ \E r \in Req, f \in Files, force_restart \in BOOLEAN : UploadBegin(r, f, force_restart)
    \/ \E r \in Req : UploadStore(r)
    \/ \E r \in Req, id \in Ids : StartCall(r, id)
    \/ \E r \in Req : StartCheck(r)
    \/ \E id \in Ids : Poll(id)
    \/ \E id \in Ids : Download(id)
    \/ \E w \in Workers : W_Load(w)
    \/ \E w \in Workers : W_Open(w)
    \/ \E w \in Workers : W_Page(w)
    \/ \E w \in Workers : W_Lookup(w)
    \/ \E w \in Workers : W_Translate(w)
    \/ \E w \in Workers : W_SaveCache(w)
    \/ \E w \in Workers : W_Flush(w)
    \/ \E w \in Workers : W_Save(w)
    \/ \E w \in Workers : W_CbDone(w)
    \/ \E w \in Workers : W_ErrSave(w)
    \/ \E w \in Workers : W_SaveDone(w)
    \/ \E w \in Workers : W_Finish(w)
    \/ Crash
    \/ Reply

Spec == Init /\ [][Next]_vars

(***************************************************************************)
(* The job id as a function of the upload: two uploads are drawn, and      *)
(* hinglish_upload computes the job id of each.                            *)
(***************************************************************************)
UploadNames == {<<"a">>, <<"a", "_">>, <<"a", "_", "b">>, <<"a", ".", "t">>}

UploadContents == {<<>>, <<"b">>, <<"a">>, <<"b", "_", "a">>, <<"b", "|", "b">>}

Uploads == [name : UploadNames, content : UploadContents]

InitId ==
    /\ InitJobs
    /\ env = EnvSingle
    /\ idIn \in Uploads \X Uploads
    /\ idOut = IdNone
    /\ InitPure

ComputeIds ==
    /\ idOut = IdNone
    /\ idOut' = <<JobId(idIn[1].name, idIn[1].content), JobId(idIn[2].name, idIn[2].content)>>
    /\ UNCHANGED <<jobVars, idIn, pureVars>>

NextId == ComputeIds

SpecId == InitId /\ [][NextId]_vars

(***************************************************************************)
(* process_pages called on its own, with a start_page of the caller's      *)
(* choice and no callback: one call at a time, over one document.          *)
(***************************************************************************)
\* largest start_page a caller passes
MaxHint == 3

InitDirect ==
    /\ InitJobs
    /\ env \in {EnvSingle, EnvEmpty}
    /\ idIn = IdNone
    /\ idOut = IdNone
    /\ InitPure

\* process_pages(parser, job_id, start_page)
DirectCall(id, start_page) ==
    /\ \E f \in env.files : id = IdOfFile[f]
    /\ FreeWorker(1)
    /\ runs < MaxRuns
    /\ runs' = runs + 1
    /\ wk' = [wk EXCEPT ![1] = [NewWorker(id) EXCEPT !.hint = start_page]]
    /\ UNCHANGED <<jobs, progress, outfile, cache, cacheFile, req, crashes,
                   flushed, raced, okCalls, env, answer, idVars, pureVars>>

NextDirect ==
    \/ \E id \in Ids, start_page \in 0..MaxHint : DirectCall(id, start_page)
    \/ \E w \in Workers : W_Load(w)
    \/ \E w \in Workers : W_Open(w)
    \/ \E w \in Workers : W_Page(w)
    \/ \E w \in Workers : W_Lookup(w)
    \/ \E w \in Workers : W_Translate(w)
    \/ \E w \in Workers : W_SaveCache(w)
    \/ \E w \in Workers : W_Flush(w)
    \/ \E w \in Workers : W_Save(w)
    \/ \E w \in Workers : W_CbDone(w)
    \/ \E w \in Workers : W_ErrSave(w)
    \/ \E w \in Workers : W_SaveDone(w)
    \/ \E w \in Workers : W_Finish(w)

SpecDirect == InitDirect /\ [][NextDirect]_vars

(***************************************************************************)
(* The job engine with file operations that can fail: open() of the        *)
(* artifact and the open()/json.dump of _save_progress raise OSError       *)
(* (missing directory, full disk, permissions).  The process itself keeps  *)
(* running: one document, one request and one worker at a time.            *)
(***************************************************************************)
InitFaults ==
    /\ InitJobs
    /\ env = EnvSingle
    /\ idIn = IdNone
    /\ idOut = IdNone
    /\ InitPure

\* what the outer `except Exception as e` of process_pages returns: status error
\* and str(e); no checkpoint is saved on this path
OuterExcept(w, error) ==
    Step(w, [wk[w] EXCEPT !.pc = "finish", !.result = "error", !.error = error])

\* open(output_file, mode) raises: the outer except returns the error result
W_OpenFails(w) ==
    /\ Quiet
    /\ wk[w].pc = "open"
    /\ OuterExcept(w, "open")
    /\ UNCHANGED <<jobs, progress, outfile, cache, cacheFile, req, crashes,
                   flushed, raced, okCalls, runs, env, answer, idVars, pureVars>>

\* _save_progress after a page raises: the page's except block takes over
W_SaveFails(w) ==
    /\ Quiet
    /\ wk[w].pc = "save"
    /\ Step(w, [wk[w] EXCEPT !.pc = "err_save", !.error = "save"])
    /\ UNCHANGED <<jobs, progress, outfile, cache, cacheFile, req, crashes,
                   flushed, raced, okCalls, runs, env, answer, idVars, pureVars>>

\* _save_progress inside the page's except block raises: the new exception
\* leaves the loop and reaches the outer except
W_ErrSaveFails(w) ==
    /\ Quiet
    /\ wk[w].pc = "err_save"
    /\ OuterExcept(w, "save")
    /\ UNCHANGED <<jobs, progress, outfile, cache, cacheFile, req, crashes,
                   flushed, raced, okCalls, runs, env, answer, idVars, pureVars>>

\* _save_progress after the loop raises: the outer except returns the error result
W_SaveDoneFails(w) ==
    /\ Quiet
    /\ wk[w].pc = "save_done"
    /\ OuterExcept(w, "save")
    /\ UNCHANGED <<jobs, progress, outfile, cache, cacheFile, req, crashes,
                   flushed, raced, okCalls, runs, env, answer, idVars, pureVars>>

\* one step of the worker thread w, file operations failing or not
WorkerStep(w) ==
    \/ W_Load(w)
    \/ W_Open(w)
    \/ W_OpenFails(w)
    \/ W_Page(w)
    \/ W_Lookup(w)
    \/ W_Translate(w)
    \/ W_SaveCache(w)
    \/ W_Flush(w)
    \/ W_Save(w)
    \/ W_SaveFails(w)
    \/ W_CbDone(w)
    \/ W_ErrSave(w)
    \/ W_ErrSaveFails(w)
    \/ W_SaveDone(w)
    \/ W_SaveDoneFails(w)
    \/ W_Finish(w)

NextFaults ==
    \/ \E r \in Req, f \in Files, force_restart \in BOOLEAN : UploadBegin(r, f, force_restart)
    \/ \E r \in Req : UploadStore(r)
    \/ \E r \in Req, id \in Ids : StartCall(r, id)
    \/ \E r \in Req : StartCheck(r)
    \/ \E id \in Ids : Poll(id)
    \/ \E id \in Ids : Download(id)
    \/ \E w \in Workers : WorkerStep(w)
    \/ Reply

SpecFaults == InitFaults /\ [][NextFaults]_vars

\* every operation a worker thread calls returns or raises, so the thread takes
\* its next step; it waits only while a request handler holds hinglish_jobs_lock
\* or delivers its answer, which ends each time, so a thread that can step again
\* and again does step; the answer of a start request is delivered
FairThreads ==
    /\ \A w \in Workers : SF_vars(WorkerStep(w))
    /\ WF_vars(Reply)

SpecLive == SpecFaults /\ FairThreads

(***************************************************************************)
(* translate_to_hinglish past the cache lookup, one backend attempt at a   *)
(* time.  The backend is a script: what it does at the first, second, ...  *)
(* attempt.  Every exception of an attempt lands in `except Exception`,    *)
(* whether it is a timeout or an HTTP error raised by raise_for_status.    *)
(***************************************************************************)
RetryOutcomes == {"ok", "transient", "permanent"}

RetryScripts == [1..retry_count -> RetryOutcomes]

InitRetry ==
    /\ InitJobs
    /\ env = EnvSingle
    /\ idIn = IdNone
    /\ idOut = IdNone
    /\ ch = NoSplit
    /\ rt \in [pc : {"attempt"}, n : 1..retry_count, script : RetryScripts,
               attempt : {0}, calls : {0}, waits : {<<>>}, cause : {"none"},
               value : {0}]

\* a failed attempt that is followed by no other
MoreAttemptsNever(attempt, n) == FALSE

\* `if attempt < retry_count - 1`
MoreAttempts(attempt, n) == attempt < n - 1

\* one pass through the try block: the request, then return or except
R_Attempt ==
    /\ rt.pc = "attempt"
    /\ LET outcome == rt.script[rt.attempt + 1]
           called == [rt EXCEPT !.calls = @ + 1]
       IN  IF outcome = "ok"
           THEN rt' = [called EXCEPT !.pc = "returned", !.value = rt.attempt + 1]
           ELSE IF MoreAttempts(rt.attempt, rt.n)
                THEN rt' = [called EXCEPT !.pc = "sleep", !.cause = outcome]
                ELSE rt' = [called EXCEPT !.pc = "raised", !.cause = outcome]
    /\ UNCHANGED <<jobVars, idVars, ch>>

\* the same delay before every retry
wait_time_fixed(attempt) == 1

\* wait_time = 2 ** attempt
wait_time(attempt) == Pow(2, attempt)

\* time.sleep(wait_time), then the next iteration of the for loop
R_Sleep ==
    /\ rt.pc = "sleep"
    /\ rt' = [rt EXCEPT !.pc = "attempt", !.attempt = @ + 1,
                        !.waits = Append(@, wait_time(rt.attempt))]
    /\ UNCHANGED <<jobVars, idVars, ch>>

NextRetry == R_Attempt \/ R_Sleep

SpecRetry == InitRetry /\ [][NextRetry]_vars

(***************************************************************************)
(* translate_chunk on its own: a text and a max_chunk_size are drawn, and  *)
(* the call hands its texts to translate_to_hinglish.                      *)
(***************************************************************************)
\* longest text that is split
MaxText == 5

\* largest max_chunk_size that is tried
MaxChunk == 4

TextChars == {"a", " "}

ShortTexts == UNION {[1..k -> TextChars] : k \in 0..MaxText}

InitChunk ==
    /\ InitJobs
    /\ env = EnvSingle
    /\ idIn = IdNone
    /\ idOut = IdNone
    /\ rt = NoRetry
    /\ ch \in [done : {FALSE}, text : ShortTexts, max : 1..MaxChunk, chunks : {<<>>}]

SplitText ==
    /\ ~ch.done
    /\ ch' = [ch EXCEPT !.done = TRUE, !.chunks = translate_chunk_texts(ch.text, ch.max)]
    /\ UNCHANGED <<jobVars, idVars, rt>>

NextChunk == SplitText

SpecChunk == InitChunk /\ [][NextChunk]_vars

(***************************************************************************)
(* Properties.                                                             *)
(***************************************************************************)
\* the process_pages workers that are running for a job id
ActiveRuns(id) == {w \in Workers : ActiveRun(w) /\ wk[w].id = id}

\* a start request has just been answered
Answered == answer # NoAnswer

C2_AtMostOneRun ==
    \A id \in Ids : Cardinality(ActiveRuns(id)) <= 1

\* C3: an upload of an identity whose registry entry has status processing
\* leaves the entry's status and completed count unchanged.
C3_UploadLeavesProcessingJob ==
    [][\A r \in Req :
          (/\ UploadStore(r)
           /\ Known(req[r].id)
           /\ jobs[req[r].id].status = "processing")
          => /\ jobs'[req[r].id].status = jobs[req[r].id].status
             /\ jobs'[req[r].id].completed = jobs[req[r].id].completed]_vars

\* the texts translate_chunk returns for a page, every backend call succeeding
TranslatedParts(text) ==
    LET chunks == translate_chunk_texts(text, max_chunk_size)
    IN  [i \in 1..Len(chunks) |->
            IF NonBlank(chunks[i]) THEN Backend(chunks[i]) ELSE <<>>]

RECURSIVE Uninterrupted(_, _)
\* the artifact of one uninterrupted run over the pages from page_num on
Uninterrupted(pages, page_num) ==
    IF page_num >= get_total_pages(pages) THEN <<>>
    ELSE LET text == extract_page(pages, page_num)
         IN  (IF NeedsTranslation(text)
              THEN <<PageEntry(page_num, TranslatedParts(text))>>
              ELSE <<>>) \o Uninterrupted(pages, page_num + 1)

\* C4: resume correctness: once the runs of an identity (one at a time, each
\* starting where the checkpoint of the stopped one points) have completed it,
\* the artifact is the artifact of one uninterrupted run.
C4_ResumeIdentical ==
    \A id \in DOMAIN progress :
        (progress[id].status = "completed" /\ id \notin raced)
        => /\ id \in DOMAIN outfile
           /\ outfile[id] = Uninterrupted(PagesOf[id], 0)

\* C5: every non-blank page up to the persisted checkpoint's
\* last_completed_page has had its output written and flushed to the artifact
\* before that checkpoint was saved; unless two runs of the identity
\* overlapped, the artifact holds the page.
C5_CheckpointBehindArtifact ==
    \A id \in DOMAIN progress :
        \A p \in 0..progress[id].lcp :
            NonBlank(extract_page(PagesOf[id], p))
            => /\ <<id, p>> \in flushed
               /\ id \notin raced =>
                     /\ id \in DOMAIN outfile
                     /\ \E i \in 1..Len(outfile[id]) : outfile[id][i].marker = p + 1

\* the state a crash leaves: the checkpoint of a two-page document says page 1
C5_Witness ==
    /\ crashes > 0
    /\ \A w \in Workers : wk[w].pc = "idle"
    /\ IdB \in DOMAIN progress
    /\ progress[IdB].lcp = 1
    /\ progress[IdB].status = "in_progress"

\* C6: a run that loads a checkpoint with last_completed_page + 1 >= total
\* pages returns completed at once: it opens nothing, saves nothing and calls
\* neither the translator nor the backend.
C6_CompletedRunIsNoOp ==
    \A w \in Workers :
        (/\ wk[w].pc \notin {"idle", "load"}
         /\ wk[w].hadProgress
         /\ wk[w].loadedLcp + 1 >= wk[w].total)
        => /\ wk[w].pc = "finish"
           /\ wk[w].result = "completed"
           /\ wk[w].called = {}
           /\ wk[w].wrote = {}
           /\ wk[w].saved = NoSave

C6_Witness ==
    \E w \in Workers :
        /\ wk[w].pc = "finish"
        /\ wk[w].hadProgress
        /\ wk[w].total > 0
        /\ wk[w].loadedLcp + 1 = wk[w].total
        /\ wk[w].result = "completed"
        /\ wk[w].called = {}

\* C7 (as stated): over all jobs, sequential or concurrent, the backend is
\* invoked successfully at most once for any exact chunk text (looked at where
\* the process was never restarted and no two runs of one identity overlapped).
C7_BackendOncePerText ==
    (raced = {} /\ crashes = 0) =>
        \A text \in DOMAIN okCalls : okCalls[text] <= 1

\* C7 (amended): a translate_to_hinglish call whose lookup finds the text in the
\* cache never reaches the backend; when calls do not overlap and the process
\* is not restarted, the backend is invoked successfully at most once per text.
C7_StoredTextServedFromCache ==
    /\ \A w \in Workers :
          wk[w].pc \in {"attempt", "savecache"} => ~wk[w].cachedAtLookup
    /\ (env.workers = 1 /\ crashes = 0) =>
          \A text \in DOMAIN okCalls : okCalls[text] <= 1

\* the third page repeats the first page's text and was not sent to the backend
C7_Witness ==
    /\ env = EnvSingle
    /\ crashes = 0
    /\ wk[1].pc = "flush"
    /\ wk[1].start_page = 0
    /\ wk[1].page_num = 2
    /\ extract_page(Pages(1), 2) = extract_page(Pages(1), 0)
    /\ okCalls[extract_page(Pages(1), 2)] = 1

\* C8: a run that ends in a page failure has saved the checkpoint
\* last_completed_page = p - 1 with status error and the error text, returns
\* the failed result, has written nothing for page p and touched no later page.
C8_PageFailure ==
    \A w \in Workers :
        (wk[w].pc = "finish" /\ wk[w].result = "error")
        => /\ wk[w].saved.lcp = wk[w].page_num - 1
           /\ wk[w].saved.status = "error"
           /\ wk[w].saved.error = wk[w].error
           /\ wk[w].error \in {"extract", "transform"}
           /\ wk[w].page_num \notin wk[w].wrote
           /\ \A q \in wk[w].wrote \cup wk[w].called : q <= wk[w].page_num
           /\ \A q \in wk[w].wrote : <<wk[w].id, q>> \in flushed

\* the second page of a document fails in the backend, retries exhausted
C8_Witness ==
    \E w \in Workers :
        /\ wk[w].pc = "finish"
        /\ wk[w].result = "error"
        /\ wk[w].error = "transform"
        /\ wk[w].page_num = 1
        /\ wk[w].called = {1}
        /\ wk[w].wrote = {}
        /\ progress[wk[w].id] = Checkpoint(0, "error", "transform")

\* C9: a blank page causes no translator call and no write, the checkpoint
\* advances to it and the run goes on to the completed callback; a fresh run
\* over a document whose second of three pages is empty ends with two page
\* entries (markers 1 and 3), checkpoint last_completed_page = 2, completed.
C9_BlankPageSkipped ==
    \A w \in Workers :
        wk[w].pc # "idle" =>
            /\ \A p \in wk[w].called \cup wk[w].wrote :
                  NonBlank(extract_page(Pages(w), p))
            /\ (/\ wk[w].pc = "cb_done"
                /\ ~NonBlank(extract_page(Pages(w), wk[w].page_num)))
               => /\ wk[w].saved = Checkpoint(wk[w].page_num, "in_progress", "none")
                  /\ wk[w].page_num \notin wk[w].wrote
            /\ (/\ env = EnvSingle
                /\ wk[w].pc = "finish"
                /\ wk[w].result = "completed"
                /\ ~wk[w].hadProgress)
               => /\ Len(outfile[wk[w].id]) = 2
                  /\ outfile[wk[w].id][1].marker = 1
                  /\ outfile[wk[w].id][2].marker = 3
                  /\ progress[wk[w].id] = Checkpoint(2, "completed", "none")
                  /\ wk[w].called = {0, 2}

C9_Witness ==
    /\ env = EnvSingle
    /\ wk[1].pc = "cb_done"
    /\ wk[1].page_num = 1
    /\ extract_page(Pages(1), 1) = <<>>
    /\ wk[1].saved.lcp = 1
    /\ wk[1].wrote = {0}

\* C10: two uploads get the same job id exactly when their stored filename and
\* their content are both equal.
C10_SameIdIffSameUpload ==
    idOut # IdNone => ((idOut[1] = idOut[2]) <=> (idIn[1] = idIn[2]))

\* same filename, different content, different job ids
C10_Witness ==
    /\ idOut # IdNone
    /\ idIn[1].name = idIn[2].name
    /\ idIn[1].content # idIn[2].content
    /\ idOut[1] # idOut[2]

\* the translate_to_hinglish call has returned or raised
RetryEnded == rt.pc \in {"returned", "raised"}

\* the attempts of the call, among its rt.n, at which the backend answers
OkAttempts == {i \in 1..rt.n : rt.script[i] = "ok"}

\* the failures before the first answer, as RetryLoop counts them
LeadingFailures ==
    IF OkAttempts = {} THEN rt.n
    ELSE (CHOOSE i \in OkAttempts : \A j \in OkAttempts : i <= j) - 1

\* C13: for a chunk not in the cache translate_to_hinglish makes at most
\* retry_count backend attempts, returns the result of the first attempt that
\* succeeds, and raises, with the cause of the last attempt, exactly when all
\* its attempts fail; it never returns without a result.
C13_BoundedRetries ==
    rt.pc # "idle" =>
        /\ rt.calls <= rt.n
        /\ rt.n <= retry_count
        /\ rt.pc = "returned" =>
              /\ rt.value = rt.calls
              /\ rt.calls = LeadingFailures + 1
              /\ rt.script[rt.calls] = "ok"
        /\ rt.pc = "raised" =>
              /\ OkAttempts = {}
              /\ rt.calls = rt.n
              /\ rt.cause = rt.script[rt.n]
        /\ (RetryEnded /\ OkAttempts = {}) => rt.pc = "raised"
        /\ (RetryEnded /\ rt.n = retry_count) =>
              /\ RetryLoop(0, LeadingFailures).ok = (rt.pc = "returned")
              /\ RetryLoop(0, LeadingFailures).attempts = rt.calls

\* the third attempt succeeds after two failures
C13_Witness ==
    /\ rt.pc = "returned"
    /\ rt.n = retry_count
    /\ rt.calls = 3
    /\ rt.value = 3
    /\ rt.waits = <<1, 2>>

\* C14: after a permanent backend error the call makes no further backend
\* attempt for the chunk and fails at once.
C14_PermanentNotRetried ==
    (rt.pc # "idle" /\ rt.cause = "permanent") =>
        /\ rt.pc = "raised"
        /\ \A i \in 1..(rt.calls - 1) : rt.script[i] # "permanent"

RECURSIVE WordsOf(_)
\* the words of the chunks, in order
WordsOf(chunks) ==
    IF chunks = <<>> THEN <<>>
    ELSE SplitWords(Head(chunks), <<>>) \o WordsOf(Tail(chunks))

\* C15: for a text longer than max_chunk_size the sub-chunks, joined with
\* single spaces in order, are the whitespace-normalized word sequence of the
\* text: no word is split, dropped, duplicated or moved, no sub-chunk is empty.
C15_WordsPreserved ==
    (ch.done /\ Len(ch.text) > ch.max) =>
        /\ Join(ch.chunks) = Join(SplitWords(ch.text, <<>>))
        /\ WordsOf(ch.chunks) = SplitWords(ch.text, <<>>)
        /\ \A i \in 1..Len(ch.chunks) :
              /\ ch.chunks[i] # <<>>
              /\ ch.chunks[i] = Join(SplitWords(ch.chunks[i], <<>>))

\* three words, the first two of which share a chunk
C15_Witness ==
    /\ ch.done
    /\ Len(ch.text) > ch.max
    /\ Len(SplitWords(ch.text, <<>>)) = 3
    /\ Len(ch.chunks) = 2
    /\ ch.chunks[1] = <<"a", " ", "a">>

\* C16: every text translate_chunk hands to translate_to_hinglish has length
\* <= max_chunk_size.
C16_ChunksWithinMax ==
    ch.done => \A i \in 1..Len(ch.chunks) : Len(ch.chunks[i]) <= ch.max

\* C11: upload starts no processing; it reports resume_from =
\* last_completed_page + 1 of the checkpoint it loads and 0 when there is none,
\* and stores that value with the job; a process_pages run begins at the page
\* given by the same rule for the checkpoint it loads, hence at the reported
\* page when the checkpoint has not changed in between.
C11_UploadReportsResumePoint ==
    [][/\ \A r \in Req :
             /\ (req[r].op = "idle" /\ req'[r].op = "upload") =>
                   /\ wk' = wk /\ runs' = runs /\ jobs' = jobs /\ progress' = progress
                   /\ req'[r].seen \in {StoredCk(req'[r].id), CorruptCk}
                   /\ req'[r].resume_from =
                         IF req'[r].seen.status = "absent" THEN 0
                         ELSE req'[r].seen.lcp + 1
                   /\ req'[r].id \notin DOMAIN progress => req'[r].resume_from = 0
             /\ (req[r].op = "upload" /\ req'[r].op = "idle" /\ crashes' = crashes) =>
                   /\ wk' = wk /\ runs' = runs /\ progress' = progress
                   /\ jobs'[req[r].id].status = "uploaded"
                   /\ jobs'[req[r].id].completed = req[r].resume_from
       /\ \A w \in Workers :
             (wk[w].pc = "load" /\ wk'[w].pc # "load" /\ wk'[w].pc # "idle"
                                /\ wk'[w].result # "raised") =>
                wk'[w].start_page =
                    IF wk[w].id \in DOMAIN progress THEN progress[wk[w].id].lcp + 1 ELSE 0
      ]_vars

\* a run begins at the page the upload before it reported
C11_Witness ==
    \E w \in Workers :
        /\ wk[w].pc = "open"
        /\ wk[w].start_page = 1
        /\ Known(wk[w].id)
        /\ jobs[wk[w].id].completed = 1
        /\ progress[wk[w].id].lcp = 0

\* C12: an unreadable checkpoint file counts as no checkpoint: upload answers as
\* it does without a checkpoint (resume_from = 0) and no process_pages run ends
\* because its checkpoint could not be loaded.
C12_CorruptCheckpointIgnored ==
    /\ \A id \in Ids :
          ~Readable(StoredCk(id)) =>
              UploadResponse(id, StoredCk(id), FALSE) = UploadResponse(id, NoCk, FALSE)
    /\ \A w \in Workers : wk[w].pc # "idle" => wk[w].result # "raised"

\* the values of the fields hinglish_download looks at
JobStatuses == {"uploaded", "processing", "completed", "error"}

\* C17: download returns the artifact exactly when the registry status is
\* completed and the artifact exists, answers 400 whenever the status is not
\* completed and 404 when it is completed but the artifact is missing.
C17_Download ==
    /\ \A status \in JobStatuses, output_file \in {"none", "set"}, exists \in BOOLEAN :
          LET d == DownloadAnswer(TRUE, [status |-> status, output_file |-> output_file],
                                  exists, <<>>)
          IN  /\ d.code = 200 <=> (status = "completed" /\ output_file = "set" /\ exists)
              /\ status # "completed" => d.code = 400
              /\ (status = "completed" /\ ~(output_file = "set" /\ exists)) => d.code = 404
    /\ \A id \in Ids :
          LET d == DownloadResponse(id)
          IN  /\ d.code = 200 =>
                    /\ Known(id)
                    /\ jobs[id].status = "completed"
                    /\ id \in DOMAIN outfile
                    /\ d.body = outfile[id]
              /\ (Known(id) /\ jobs[id].status # "completed") => d.code = 400

\* a completed job whose artifact holds a page is handed out
C17_Witness ==
    \E id \in Ids :
        /\ DownloadResponse(id).code = 200
        /\ Len(DownloadResponse(id).body) > 0
        /\ \A w \in Workers : wk[w].pc = "idle"

\* C18: for an identity that is not in the registry, start, poll and download
\* answer 404, no worker runs for it and the registry does not hold it.
C18_UnknownIdentity ==
    /\ \A id \in Ids :
          ~Known(id) =>
              /\ PollResponse(id).code = 404
              /\ DownloadResponse(id).code = 404
              /\ \A w \in Workers : wk[w].pc # "idle" => wk[w].id # id
    /\ Answered => (answer.result = "not_found" <=> ~Known(answer.id))

\* a start request for an identity the restarted server does not know
C18_Witness ==
    /\ Answered
    /\ answer.result = "not_found"
    /\ crashes > 0
    /\ answer.id \in DOMAIN progress
    /\ PollResponse(answer.id).code = 404

\* C19: an upload with force_restart set reports resume_from = 0 and leaves no
\* checkpoint of the identity.
C19_ForceRestartClears ==
    [][\A r \in Req, f \in Files :
          (UploadBegin(r, f, TRUE) /\ req'[r].op = "upload") =>
              /\ req'[r].resume_from = 0
              /\ IdOfFile[f] \notin DOMAIN progress']_vars

\* C20: without a checkpoint process_pages starts at page 0 whatever
\* start_page the caller passes, and has handled every page when it reports
\* completed.
C20_StartsAtZeroWithoutCheckpoint ==
    \A w \in Workers :
        (wk[w].pc \notin {"idle", "load"} /\ wk[w].result # "raised"
                                          /\ ~wk[w].hadProgress) =>
            /\ wk[w].start_page = 0
            /\ (wk[w].pc = "finish" /\ wk[w].result = "completed") =>
                  \A p \in 0..(wk[w].total - 1) :
                      NonBlank(extract_page(Pages(w), p)) => p \in wk[w].wrote

\* C21: a process_pages run that loads a checkpoint begins at its
\* last_completed_page + 1 whatever start_page the caller passed, and opens the
\* artifact for append exactly when that page is past page 0: the caller's
\* value changes neither.
C21_CheckpointOverridesHint ==
    [][\A w \in Workers :
          /\ (wk[w].pc = "load" /\ wk'[w].pc \in {"open", "finish"}
                                /\ wk[w].id \in DOMAIN progress
                                /\ wk'[w].result # "raised") =>
                /\ wk'[w].hadProgress
                /\ wk'[w].start_page = progress[wk[w].id].lcp + 1
                /\ wk'[w].hint = wk[w].hint
          /\ (wk[w].pc = "open" /\ wk'[w].pc # "open" /\ wk[w].hadProgress) =>
                /\ wk[w].start_page = wk[w].loadedLcp + 1
                /\ IF wk[w].loadedLcp + 1 > 0 /\ wk[w].id \in DOMAIN outfile
                   THEN outfile' = outfile
                   ELSE outfile'[wk[w].id] = <<>>
                /\ wk'[w].pc = "page" => wk'[w].page_num = wk[w].loadedLcp + 1
      ]_vars

\* the caller passes start_page = 3, the checkpoint says page 0 is done
C21_Witness ==
    /\ wk[1].pc = "page"
    /\ wk[1].hint = 3
    /\ wk[1].hadProgress
    /\ wk[1].loadedLcp = 0
    /\ wk[1].page_num = 1
    /\ Len(outfile[wk[1].id]) = 1

\* C22: a run handles its pages one by one in ascending order, starting at its
\* start page and leaving none out, so that every non-blank page up to the
\* checkpoint's last_completed_page has had its output written, by the run
\* that saves the checkpoint or by an earlier one.
C22_PagesInOrder ==
    [][/\ \A w \in Workers :
             /\ (wk[w].pc = "cb_done" /\ wk'[w].pc = "page") =>
                   wk'[w].page_num = wk[w].page_num + 1
             /\ (wk[w].pc = "open" /\ wk'[w].pc = "page") =>
                   wk'[w].page_num = wk[w].start_page
             /\ (wk[w].pc \notin {"idle", "open", "cb_done"} /\ wk'[w].pc # "idle") =>
                   wk'[w].page_num = wk[w].page_num
             /\ (wk[w].pc = "save" /\ wk'[w].pc = "cb_done") =>
                   /\ progress'[wk[w].id].lcp = wk[w].page_num
                   /\ \A p \in wk[w].start_page..wk[w].page_num :
                         NonBlank(extract_page(Pages(w), p)) => p \in wk[w].wrote
       /\ \A id \in DOMAIN progress' :
             \A p \in 0..progress'[id].lcp :
                 NonBlank(extract_page(PagesOf[id], p)) => <<id, p>> \in flushed'
      ]_vars

\* a resumed run has handled pages 1 and 2; page 0 is from the run before it
C22_Witness ==
    /\ env = EnvSingle
    /\ wk[1].pc = "cb_done"
    /\ wk[1].hadProgress
    /\ wk[1].start_page = 1
    /\ wk[1].page_num = 2
    /\ wk[1].wrote = {2}
    /\ <<wk[1].id, 0>> \in flushed
    /\ progress[wk[1].id].lcp = 2

\* C23: a job whose run ended in failure, whatever the failing step, has status
\* error and an error cause in the registry, and its persisted checkpoint has
\* status error with the same cause.
C23_FailureRecordedTwice ==
    \A id \in DOMAIN jobs :
        jobs[id].status = "error" =>
            /\ jobs[id].error # "none"
            /\ id \in DOMAIN progress
            /\ progress[id].status = "error"
            /\ progress[id].error = jobs[id].error

\* C24: once a start request has been answered started, the registry status of
\* its job eventually is completed or error, and the worker thread it launched
\* eventually ends, provided every operation the thread calls returns or raises.
C24_StartedJobTerminates ==
    /\ \A id \in Ids :
          (Answered /\ answer.result = "started" /\ answer.id = id)
              ~> (Known(id) /\ jobs[id].status \in {"completed", "error"})
    /\ \A w \in Workers : (wk[w].pc = "load") ~> (wk[w].pc = "idle")

\* a started job whose checkpoint could not be saved has ended with status error
C24_Witness ==
    /\ \A w \in Workers : wk[w].pc = "idle"
    /\ Known(IdA)
    /\ jobs[IdA].status = "error"
    /\ jobs[IdA].error = "save"
    /\ runs = 1

\* C25: process_pages over a document without pages hands nothing to the
\* translator, returns completed, leaves an artifact that exists and is empty
\* and a checkpoint with status completed.
C25_ZeroPages ==
    \A w \in Workers :
        (wk[w].pc # "idle" /\ Pages(w) = <<>>) =>
            /\ wk[w].pc \in {"load", "open", "save_done", "finish"}
            /\ wk[w].called = {}
            /\ okCalls = EmptyMap
            /\ wk[w].pc = "finish" =>
                  /\ wk[w].result = "completed"
                  /\ wk[w].total = 0
                  /\ wk[w].id \in DOMAIN outfile
                  /\ outfile[wk[w].id] = <<>>
                  /\ progress[wk[w].id] = Checkpoint(-1, "completed", "none")

\* a first run over the empty document, called with start_page = 2, has ended
C25_Witness ==
    /\ env = EnvEmpty
    /\ wk[1].pc = "finish"
    /\ wk[1].id = IdE
    /\ wk[1].hint = 2
    /\ ~wk[1].hadProgress
    /\ wk[1].result = "completed"
    /\ outfile[IdE] = <<>>

\* the places of process_pages a worker can be at next, for each place of its
\* page loop
AfterPlace ==
    [page      |-> {"lookup", "save", "err_save"},
     lookup    |-> {"lookup", "attempt", "flush"},
     attempt   |-> {"savecache", "err_save"},
     savecache |-> {"lookup", "flush"},
     flush     |-> {"save"},
     save      |-> {"cb_done"},
     cb_done   |-> {"page", "save_done"},
     err_save  |-> {"finish"}]

\* C26: for every page p of a run the order is: callback(p, total, processing),
\* extraction and translation, write and flush, checkpoint save with
\* last_completed_page = p, callback(p + 1, total, completed), and only then
\* the processing callback of page p + 1; a page that fails is followed by the
\* error checkpoint and the end of the run, with no completed callback.
C26_PageEventOrder ==
    [][\A w \in Workers :
          (wk[w].pc \in DOMAIN AfterPlace /\ wk'[w] # wk[w] /\ wk'[w].pc # "idle") =>
              LET id == wk[w].id
                  p == wk[w].page_num
              IN  /\ wk'[w].pc \in AfterPlace[wk[w].pc]
                  /\ wk[w].pc = "page" =>
                        /\ jobs'[id].completed = p
                        /\ progress' = progress /\ outfile' = outfile
                  /\ wk[w].pc \in {"lookup", "attempt", "savecache"} =>
                        /\ p \in wk[w].called
                        /\ jobs' = jobs /\ progress' = progress /\ outfile' = outfile
                  /\ wk[w].pc = "flush" =>
                        /\ outfile'[id] = Append(outfile[id], PageEntry(p, wk[w].parts))
                        /\ jobs' = jobs /\ progress' = progress
                  /\ wk[w].pc = "save" =>
                        /\ NonBlank(extract_page(Pages(w), p)) => p \in wk[w].wrote
                        /\ progress'[id].lcp = p
                        /\ jobs' = jobs /\ outfile' = outfile
                  /\ wk[w].pc = "cb_done" =>
                        /\ progress[id].lcp >= p \/ id \in raced
                        /\ jobs'[id].completed = p + 1
                        /\ wk'[w].pc = "page" => wk'[w].page_num = p + 1
                        /\ progress' = progress /\ outfile' = outfile
                  /\ wk[w].pc = "err_save" =>
                        /\ progress'[id].lcp = p - 1
                        /\ progress'[id].status = "error"
                        /\ jobs' = jobs /\ outfile' = outfile
      ]_vars

\* page 0 is written, saved and reported completed; page 1 is not yet announced
C26_Witness ==
    /\ env = EnvSingle
    /\ wk[1].pc = "page"
    /\ wk[1].start_page = 0
    /\ wk[1].page_num = 1
    /\ wk[1].wrote = {0}
    /\ jobs[wk[1].id].completed = 1
    /\ progress[wk[1].id] = PageCheckpoint(0)
    /\ Len(outfile[wk[1].id]) = 1

\* C27: at every point of a run, and so after a crash at any point, the highest
\* page written to the artifact is at most one past the persisted checkpoint's
\* last_completed_page (-1 when no checkpoint can be read); looked at where no
\* two runs of the identity overlapped.
C27_AtMostOnePageAhead ==
    \A id \in DOMAIN outfile :
        id \notin raced =>
            \A i \in 1..Len(outfile[id]) :
                outfile[id][i].marker - 1 <= StoredCk(id).lcp + 1

\* C28: translate_to_hinglish sleeps once after every failed attempt but the
\* last: 1 second after the first failure and twice the previous delay after
\* each further one (2^i after attempt i); nothing is slept after the final
\* failed attempt or after a success.
C28_ExponentialBackoff ==
    rt.pc # "idle" =>
        /\ \A k \in 1..Len(rt.waits) :
              rt.waits[k] = IF k = 1 THEN 1 ELSE 2 * rt.waits[k - 1]
        /\ Len(rt.waits) <= rt.n - 1
        /\ rt.pc = "attempt" => Len(rt.waits) = rt.calls
        /\ rt.pc \in {"sleep", "returned", "raised"} => Len(rt.waits) = rt.calls - 1
        /\ rt.pc = "sleep" => (rt.calls < rt.n /\ rt.script[rt.calls] # "ok")
        /\ \A k \in 1..Len(rt.waits) : rt.script[k] # "ok"

\* three failed attempts: delays of 1 and 2 seconds, none after the third
C28_Witness ==
    /\ rt.pc = "raised"
    /\ rt.n = retry_count
    /\ rt.calls = 3
    /\ rt.waits = <<1, 2>>

\* the worker record is of a run whose loaded checkpoint covers every page
LoadedFinished(rec) ==
    /\ rec.pc \notin {"idle", "load"}
    /\ rec.result # "raised"
    /\ rec.hadProgress
    /\ rec.loadedLcp + 1 >= rec.total

\* C29: a process_pages run that finds the job finished is a no-op: from the
\* load of the checkpoint to its return it returns completed at once, leaves
\* the artifact and the checkpoint file as they are and makes no progress
\* callback (the registry's completed count is not touched).
C29_FinishedRunChangesNothing ==
    [][\A w \in Workers :
          /\ (wk[w].pc = "load" /\ LoadedFinished(wk'[w])) =>
                /\ wk'[w].pc = "finish"
                /\ wk'[w].result = "completed"
                /\ outfile' = outfile /\ progress' = progress /\ jobs' = jobs
                /\ cache' = cache /\ okCalls' = okCalls
          /\ (LoadedFinished(wk[w]) /\ wk'[w] # wk[w] /\ crashes' = crashes) =>
                /\ wk[w].pc = "finish"
                /\ wk'[w].pc = "idle"
                /\ outfile' = outfile /\ progress' = progress
                /\ Known(wk[w].id) =>
                      /\ jobs'[wk[w].id].completed = jobs[wk[w].id].completed
                      /\ jobs'[wk[w].id].status = "completed"
      ]_vars

\* after a restart of the server a run finds every page covered by a checkpoint
\* that still says in_progress, and returns
C29_Witness ==
    \E w \in Workers :
        /\ crashes > 0
        /\ wk[w].pc = "finish"
        /\ LoadedFinished(wk[w])
        /\ wk[w].total = 2
        /\ progress[wk[w].id].status = "in_progress"
        /\ Len(outfile[wk[w].id]) = 1
        /\ jobs[wk[w].id].completed = 2

\* the first word of a chunk
FirstWord(chunk) == Head(SplitWords(chunk, <<>>))

\* C30: the split is greedy-maximal: for every sub-chunk but the last,
\* appending the first word of the next one with one separating space would
\* make it longer than max_chunk_size; a word with which the chunk would be
\* exactly max_chunk_size long is still put into it.
C30_GreedyMaximal ==
    (ch.done /\ Len(ch.text) > ch.max) =>
        \A i \in 1..(Len(ch.chunks) - 1) :
            Len(ch.chunks[i]) + 1 + Len(FirstWord(ch.chunks[i + 1])) > ch.max

\* C34: for every identity the persisted checkpoint's last_completed_page never
\* decreases from one state to the next, whatever uploads, starts and runs
\* take place (looked at where the checkpoint file can be read).
C34_CheckpointNeverDecreases ==
    [][\A id \in DOMAIN progress :
          /\ id \in DOMAIN progress'
          /\ (Readable(progress[id]) /\ Readable(progress'[id])) =>
                progress'[id].lcp >= progress[id].lcp]_vars

\* C35: after any sequence of runs of an identity, failed or interrupted and
\* resumed ones included, no page marker occurs twice in the artifact (looked
\* at where no two runs of the identity overlapped).
C35_PageAtMostOnce ==
    \A id \in DOMAIN outfile :
        id \notin raced =>
            \A i, j \in 1..Len(outfile[id]) :
                outfile[id][i].marker = outfile[id][j].marker => i = j

\* C36: whenever a poll reports status completed it reports completed = total.
C36_CompletedCountsAllPages ==
    \A id \in Ids :
        (PollResponse(id).code = 200 /\ PollResponse(id).status = "completed") =>
            PollResponse(id).completed = PollResponse(id).total

\* C37: whenever a poll reports status completed it reports no error.
C37_CompletedHasNoError ==
    \A id \in Ids :
        (PollResponse(id).code = 200 /\ PollResponse(id).status = "completed") =>
            PollResponse(id).error = "none"

\* 'last_completed_page': start_page - 1 if start_page > 0 else -1, in the
\* result the outer except of process_pages returns
ReturnedLcp(start_page) == IF start_page > 0 THEN start_page - 1 ELSE -1

\* C38: the last_completed_page of a failed result process_pages returns is the
\* last_completed_page of the checkpoint it saved for the failure.
C38_FailedResultMatchesCheckpoint ==
    \A w \in Workers :
        (wk[w].pc = "finish" /\ wk[w].result = "error" /\ wk[w].saved # NoSave) =>
            ReturnedLcp(wk[w].start_page) = wk[w].saved.lcp

\* C39: the registry's completed count of a job is at least 0, at most the
\* page total and at most the persisted checkpoint's last_completed_page + 1
\* (-1 standing for no checkpoint).
C39_RegistryNotAheadOfCheckpoint ==
    \A id \in DOMAIN jobs :
        /\ jobs[id].completed >= 0
        /\ jobs[id].completed <= jobs[id].total
        /\ jobs[id].completed <= StoredCk(id).lcp + 1

\* C40: whenever a worker thread is alive for an identity, the registry status
\* of the identity is processing.
C40_LiveWorkerMeansProcessing ==
    \A w \in Workers :
        wk[w].pc # "idle" =>
            /\ Known(wk[w].id)
            /\ jobs[wk[w].id].status = "processing"

\* C33: the terminal update is atomic for polls and downloads: whenever the
\* registry shows status completed the job's output_file is set, and whenever
\* it shows status error the job's error field is set.
C33_TerminalUpdateAtomic ==
    \A id \in DOMAIN jobs :
        /\ jobs[id].status = "completed" => jobs[id].output_file = "set"
        /\ jobs[id].status = "error" => jobs[id].error # "none"

C33_Witness ==
    \E a, b \in DOMAIN jobs :
        /\ jobs[a].status = "completed" /\ jobs[a].output_file = "set"
        /\ DownloadResponse(a).code = 200
        /\ jobs[b].status = "error" /\ jobs[b].error # "none"
        /\ PollResponse(b).error = jobs[b].error

\* C32: a cache entry is created only by a successful transformation of its
\* chunk, and an entry that is present, in the running process or in the cache
\* file, is never removed or changed (no operation of the server calls
\* clear_cache; the in-memory entries of a killed process are not counted).
C32_CacheEntriesPermanent ==
    [][/\ crashes' = crashes =>
            /\ \A k \in DOMAIN cache :
                  k \in DOMAIN cache' /\ cache'[k] = cache[k]
            /\ \A k \in DOMAIN cache' \ DOMAIN cache :
                  \E w \in Workers :
                      /\ wk[w].pc = "attempt" /\ wk'[w].pc = "savecache"
                      /\ k = cache_key(Chunk(w))
                      /\ cache'[k] = Backend(Chunk(w))
       /\ \A k \in DOMAIN cacheFile :
             k \in DOMAIN cacheFile' /\ cacheFile'[k] = cacheFile[k]]_vars

(***************************************************************************)
(* hinglish_jobs_lock and the download handler, step by step               *)
(***************************************************************************)

InitLock ==
    /\ InitJobs
    /\ env = EnvSingle
    /\ idIn = IdNone
    /\ idOut = IdNone
    /\ InitPure

\* hinglish_download is inside its `with hinglish_jobs_lock:` block, which spans
\* the whole handler body up to the return
LockHeld == \E r \in Req : req[r].op = "download"

DownloadReq(id, pc) == [op |-> "download", id |-> id, pc |-> pc]

\* hinglish_download enters `with hinglish_jobs_lock:`
D_Acquire(r, id) ==
    /\ Free(r)
    /\ ~LockHeld
    /\ req' = [req EXCEPT ![r] = DownloadReq(id, "registry")]
    /\ UNCHANGED <<jobs, progress, outfile, cache, cacheFile, wk, crashes,
                   flushed, raced, okCalls, runs, env, answer, idVars, pureVars>>

\* the registry checks: job_id in hinglish_jobs, job['status'],
\* job.get('output_file'); a return leaves the block, otherwise os.path.exists
\* is called next, still inside the block
D_Registry(r) ==
    /\ Quiet
    /\ req[r].op = "download" /\ req[r].pc = "registry"
    /\ LET id == req[r].id
           a == DownloadAnswer(Known(id),
                               IF Known(id) THEN jobs[id]
                               ELSE [status |-> "none", output_file |-> "none"],
                               TRUE, <<>>)
       IN  req' = [req EXCEPT ![r] = IF a.code = 200
                                     THEN DownloadReq(id, "exists")
                                     ELSE IdleReq]
    /\ UNCHANGED <<jobs, progress, outfile, cache, cacheFile, wk, crashes,
                   flushed, raced, okCalls, runs, env, answer, idVars, pureVars>>

\* os.path.exists(output_file), inside the block: 404 and return, or go on to
\* os.path.getsize and send_file
D_Exists(r) ==
    /\ Quiet
    /\ req[r].op = "download" /\ req[r].pc = "exists"
    /\ req' = [req EXCEPT ![r] = IF req[r].id \in DOMAIN outfile
                                  THEN DownloadReq(req[r].id, "send")
                                  ELSE IdleReq]
    /\ UNCHANGED <<jobs, progress, outfile, cache, cacheFile, wk, crashes,
                   flushed, raced, okCalls, runs, env, answer, idVars, pureVars>>

\* os.path.getsize(output_file) and return send_file(...), inside the block;
\* the return leaves it
D_Send(r) ==
    /\ Quiet
    /\ req[r].op = "download" /\ req[r].pc = "send"
    /\ DownloadResponse(req[r].id).code = 200
    /\ req' = [req EXCEPT ![r] = IdleReq]
    /\ UNCHANGED <<jobs, progress, outfile, cache, cacheFile, wk, crashes,
                   flushed, raced, okCalls, runs, env, answer, idVars, pureVars>>

\* the steps that enter `with hinglish_jobs_lock:` wait while the download
\* handler is inside its block; the other steps of a worker take no lock
L_UploadStore(r) == ~LockHeld /\ UploadStore(r)

L_StartCheck(r) == ~LockHeld /\ StartCheck(r)

L_Poll(id) == ~LockHeld /\ Poll(id)

L_Page(w) == ~LockHeld /\ W_Page(w)

L_CbDone(w) == ~LockHeld /\ W_CbDone(w)

L_Finish(w) == ~LockHeld /\ W_Finish(w)

NextLock ==
    \/ \E r \in Req, f \in Files, force_restart \in BOOLEAN : UploadBegin(r, f, force_restart)
    \/ \E r \in Req : L_UploadStore(r)
    \/ \E r \in Req, id \in Ids : StartCall(r, id)
    \/ \E r \in Req : L_StartCheck(r)
    \/ \E id \in Ids : L_Poll(id)
    \/ \E r \in Req, id \in Ids : D_Acquire(r, id)
    \/ \E r \in Req : D_Registry(r)
    \/ \E r \in Req : D_Exists(r)
    \/ \E r \in Req : D_Send(r)
    \/ \E w \in Workers : W_Load(w)
    \/ \E w \in Workers : W_Open(w)
    \/ \E w \in Workers : L_Page(w)
    \/ \E w \in Workers : W_Lookup(w)
    \/ \E w \in Workers : W_Translate(w)
    \/ \E w \in Workers : W_SaveCache(w)
    \/ \E w \in Workers : W_Flush(w)
    \/ \E w \in Workers : W_Save(w)
    \/ \E w \in Workers : L_CbDone(w)
    \/ \E w \in Workers : W_ErrSave(w)
    \/ \E w \in Workers : W_SaveDone(w)
    \/ \E w \in Workers : L_Finish(w)
    \/ Reply

SpecLock == InitLock /\ [][NextLock]_vars

\* C31: hinglish_jobs_lock is held for a registry access only: a handler that
\* holds it is at its registry checks, never at a file check or a file send.
C31_LockOnlyForMapAccess ==
    \A r \in Req : req[r].op = "download" => req[r].pc = "registry"

====
